---- MODULE Spec2Model ----
(***************************************************************************)
(* The Ethereum address tracker (tracker/models.py, tracker/forms.py,      *)
(* tracker/views.py) as a state machine over its relational store.         *)
(*                                                                         *)
(* Tables are sequences of rows; a row's primary key is its position, so   *)
(* a table only ever grows at its end (no handler deletes a row).          *)
(* Strings the code inspects character by character (address strings,     *)
(* decimal strings of the explorer API) are sequences of one-character     *)
(* strings; strings the code only compares (hashes, names, labels) are     *)
(* TLA+ strings.  A stored decimal with 18 places is a record              *)
(* [int, frac] of digit sequences: integer part and fractional part.       *)
(*                                                                         *)
(* Spec answers one request at a time.  SpecRace has two server workers    *)
(* answer requests at the same time: `inflight` holds, for each worker,    *)
(* the request it is in the middle of, and a step is one database          *)
(* statement of add_address or of the importer.                            *)
(***************************************************************************)
EXTENDS Integers, Sequences, FiniteSets, TLC

VARIABLES addresses, transactions, watchlists, memberships, clock, last, inflight

vars == <<addresses, transactions, watchlists, memberships, clock, last, inflight>>

\* ------------------------------------------------------------------ bounds

\* Requests served in one behaviour; the clock counts them.
MaxOps == 3

\* Length of the long transaction list the explorer API can answer with.
BigLen == 21

\* ------------------------------------------------------- program constants

\* r'^0x[a-fA-F0-9]{40}$'
HexLen == 40

\* EthereumAddress.address = CharField(max_length=42, ...)
AddressMaxLength == 42

\* Decimal('1000000000000000000') and Decimal(10**18): 10^18 wei per ether
EthDecimals == 18

\* order_by('-timestamp')[:20] and all_transactions[:20]
Window == 20

\* ------------------------------------------------------------------ text

Digits == {"0", "1", "2", "3", "4", "5", "6", "7", "8", "9"}

HexChars == Digits \cup {"a", "b", "c", "d", "e", "f", "A", "B", "C", "D", "E", "F"}

Whitespace == {" ", "\t", "\n"}

UpperLetters ==
    <<"A", "B", "C", "D", "E", "F", "G", "H", "I", "J", "K", "L", "M",
      "N", "O", "P", "Q", "R", "S", "T", "U", "V", "W", "X", "Y", "Z">>

LowerLetters ==
    <<"a", "b", "c", "d", "e", "f", "g", "h", "i", "j", "k", "l", "m",
      "n", "o", "p", "q", "r", "s", "t", "u", "v", "w", "x", "y", "z">>

LowerMap ==
    [c \in {UpperLetters[i] : i \in 1..26} |->
        LowerLetters[CHOOSE i \in 1..26 : UpperLetters[i] = c]]

LowerChar(c) == IF c \in DOMAIN LowerMap THEN LowerMap[c] ELSE c

\* str.lower()
Lower(s) == [i \in 1..Len(s) |-> LowerChar(s[i])]

RECURSIVE StripLeft(_)
StripLeft(s) ==
    IF s # <<>> /\ Head(s) \in Whitespace THEN StripLeft(Tail(s)) ELSE s

RECURSIVE StripRight(_)
StripRight(s) ==
    IF s # <<>> /\ s[Len(s)] \in Whitespace
    THEN StripRight(SubSeq(s, 1, Len(s) - 1))
    ELSE s

\* str.strip(), which forms.CharField applies to the submitted value
Strip(s) == StripRight(StripLeft(s))

Rep(c, n) == [i \in 1..n |-> c]

\* re.match(r'^0x[a-fA-F0-9]{40}$', s): "$" also matches before one
\* trailing newline.
MatchesAddressRegex(s) ==
    /\ Len(s) \in {HexLen + 2, HexLen + 3}
    /\ s[1] = "0"
    /\ s[2] = "x"
    /\ \A i \in 3..(HexLen + 2) : s[i] \in HexChars
    /\ Len(s) = HexLen + 3 => s[HexLen + 3] = "\n"

IsDigits(s) == s # <<>> /\ \A i \in 1..Len(s) : s[i] \in Digits

DigitMap == [c \in Digits |-> CHOOSE n \in 0..9 : ToString(n) = c]

DigitValue(c) == DigitMap[c]

\* int(s) for a string of decimal digits
RECURSIVE ParseInt(_)
ParseInt(s) ==
    IF s = <<>> THEN 0
    ELSE 10 * ParseInt(SubSeq(s, 1, Len(s) - 1)) + DigitValue(s[Len(s)])

RECURSIVE StripZeros(_)
StripZeros(s) ==
    IF Len(s) > 1 /\ Head(s) = "0" THEN StripZeros(Tail(s)) ELSE s

\* Decimal(s) / Decimal(10 ** 18) for a string of decimal digits: the
\* decimal point moves 18 places to the left.
WeiToEth(s) ==
    LET padded == IF Len(s) > EthDecimals THEN s
                  ELSE Rep("0", EthDecimals + 1 - Len(s)) \o s
        cut == Len(padded) - EthDecimals
    IN  [int  |-> StripZeros(SubSeq(padded, 1, cut)),
         frac |-> SubSeq(padded, cut + 1, Len(padded))]

\* DecimalField(max_digits=30, decimal_places=18, default=0)
ZeroDecimal == [int |-> <<"0">>, frac |-> Rep("0", EthDecimals)]

\* ---------------------------------------------------------------- inputs

\* Address strings a client submits in the form or in the URL.
AddrA == <<"0", "x">> \o Rep("a", HexLen)

AddrB == <<"0", "x">> \o Rep("b", HexLen)

AddrAUpper == <<"0", "x">> \o Rep("A", HexLen)

AddrAPadded == <<" ">> \o AddrA \o <<"\n">>

AddrBadPrefix == <<"0", "X">> \o Rep("a", HexLen)

AddrTooShort == <<"0", "x">> \o Rep("a", HexLen - 1)

AddrTooLong == <<"0", "x">> \o Rep("a", HexLen + 1)

AddrNonHex == <<"0", "x">> \o Rep("a", HexLen - 1) \o <<"g">>

\* 'invalid_address' of tests.py
AddrInvalid ==
    <<"i", "n", "v", "a", "l", "i", "d", "_", "a", "d", "d", "r", "e", "s", "s">>

SubmittedAddresses ==
    {AddrA, AddrB, AddrAUpper, AddrAPadded, AddrBadPrefix, AddrTooShort,
     AddrTooLong, AddrNonHex, AddrInvalid, <<>>}

Labels == {"Test Address"}

Users == {"alice", "bob"}

Anonymous == "anonymous"

Methods == {"GET", "POST"}

WatchListNames == {"Default", "Mine", ""}

OneEther == <<"1">> \o Rep("0", EthDecimals)

\* Answers of the explorer's account/balance action, by name.
BalanceApi ==
    [one_ether |-> [status |-> "1", result |-> OneEther],
     dust      |-> [status |-> "1", result |-> <<"0", "4", "2">>],
     notok     |-> [status |-> "0", result |-> <<"N", "O", "T", "O", "K">>]]

BalanceAnswers == DOMAIN BalanceApi

AddrBUpper == <<"0", "x">> \o Rep("B", HexLen)

AddrC == <<"0", "x">> \o Rep("c", HexLen)

\* Address strings in the URL of address_detail and api_address_balance.
UrlAddresses == {AddrA, AddrB, AddrAUpper}

RECURSIVE DigitSeq(_)
DigitSeq(n) ==
    IF n < 10 THEN <<ToString(n)>> ELSE DigitSeq(n \div 10) \o <<ToString(n % 10)>>

\* One object of the txlist result array.
Entry(hash, from, to, value, time, isError) ==
    [hash |-> hash, from |-> from, to |-> to, value |-> value,
     gasPrice |-> <<"2", "0">>, gasUsed |-> <<"2", "1", "0", "0", "0">>,
     blockNumber |-> <<"1", "7">>, timeStamp |-> time, isError |-> isError]

\* BigLen transfers from A to B, newest first, after one from B to A that
\* shares its time with the newest of them.
BigResult ==
    <<Entry("0xin", AddrB, AddrA, OneEther, DigitSeq(10 + BigLen), "0")>>
    \o [i \in 1..BigLen |->
          Entry("0xbig" \o ToString(BigLen + 1 - i), AddrA, AddrB, <<"7">>,
                DigitSeq(10 + BigLen + 1 - i), "0")]

\* Answers of the explorer's account/txlist action, by name.
TxListApi ==
    [notok    |-> [status |-> "0", result |-> "No transactions found"],
     denied   |-> [status |-> "0",
                   result |-> <<Entry("0x08", AddrA, AddrB, OneEther, <<"4">>, "0")>>],
     transfer |-> [status |-> "1",
                   result |-> <<Entry("0x01", AddrA, AddrB, OneEther, <<"5">>, "0")>>],
     overlap  |-> [status |-> "1",
                   result |-> <<Entry("0x02", AddrB, AddrA, <<"4", "2">>, <<"7">>, "1"),
                                Entry("0x01", AddrA, AddrB, OneEther, <<"5">>, "0"),
                                Entry("0x02", AddrB, AddrA, <<"4", "2">>, <<"7">>, "0")>>],
     self     |-> [status |-> "1",
                   result |-> <<Entry("0x03", AddrA, AddrA, <<"0">>, <<"9">>, "0")>>],
     creation |-> [status |-> "1",
                   result |-> <<Entry("0x04", AddrBUpper, <<>>, <<"0">>, <<"3">>, "")>>],
     broken   |-> [status |-> "1",
                   result |-> <<Entry("0x05", AddrB, AddrC, <<"1">>, <<"8">>, "0"),
                                Entry("0x06", AddrC, AddrAUpper, <<"1">>, <<"a", "b">>, "0"),
                                Entry("0x07", AddrA, AddrB, <<"1">>, <<"6">>, "0")>>],
     big      |-> [status |-> "1", result |-> BigResult]]

TxListAnswers == DOMAIN TxListApi

\* The answers with a short result array.
ShortTxListAnswers == TxListAnswers \ {"big"}

Ties == {"asc", "desc"}

\* ----------------------------------------------------------------- store

\* EthereumAddress.objects.filter(address=s): the primary keys
AddressPks(addrs, s) == {i \in 1..Len(addrs) : addrs[i].address = s}

\* EthereumAddress(address=s, label=l) saved with the field defaults
NewAddress(s, l, now) ==
    [address |-> s, label |-> l, balance |-> ZeroDecimal,
     last_updated |-> now, is_contract |-> FALSE, created_at |-> now]

NoContext == [transactions |-> <<>>, outgoing_count |-> 0, incoming_count |-> 0]

NoneInserted == [addresses |-> 0, transactions |-> 0, watchlists |-> 0, memberships |-> 0]

\* The last request and its answer: the handler, how it ended (`outcome`,
\* and `raised` for the exception that ended or was caught in it), the error
\* text shown, the address string the answer is about, the explorer answer
\* it consumed ("none" when it made no call) and the template context;
\* the address string a POST to add_address submitted, the watchlist the
\* request added to, and the number of rows the request inserted.
Reply(op, outcome, raised, error, address, api, context) ==
    [op |-> op, outcome |-> outcome, raised |-> raised, error |-> error,
     address |-> address, api |-> api, context |-> context,
     submitted |-> <<>>, watchlist |-> 0, inserted |-> NoneInserted]

\* The reply `reply`, with the rows inserted between two states of the tables.
Answered(reply, a0, t0, w0, m0, a1, t1, w1, m1) ==
    [reply EXCEPT !.inserted = [addresses |-> Len(a1) - Len(a0),
                                transactions |-> Len(t1) - Len(t0),
                                watchlists |-> Len(w1) - Len(w0),
                                memberships |-> Len(m1) - Len(m0)]]

\* ------------------------------------------------------------ AddAddressForm

\* clean_address returning the address as typed
AddAddressFormAsTyped(addrs, raw, label) ==
    LET value == Strip(raw)
    IN  CASE value = <<>> ->
               [valid |-> FALSE, error |-> "This field is required.", address |-> <<>>]
          [] Len(value) > AddressMaxLength ->
               [valid |-> FALSE, error |-> "Ensure this value has at most 42 characters",
                address |-> <<>>]
          [] ~MatchesAddressRegex(value) ->
               [valid |-> FALSE, error |-> "Invalid Ethereum address format",
                address |-> <<>>]
          [] AddressPks(addrs, value) # {} ->
               [valid |-> FALSE,
                error |-> "Ethereum address with this Address already exists.",
                address |-> value]
          [] OTHER ->
               [valid |-> TRUE, error |-> "", address |-> value]

\* AddAddressForm(request.POST).is_valid(): the address field (required,
\* stripped, at most 42 characters), clean_address, then the model's
\* unique check on the cleaned address.
AddAddressForm(addrs, raw, label) ==
    LET value == Strip(raw)
        cleaned == Lower(value)
    IN  CASE value = <<>> ->
               [valid |-> FALSE, error |-> "This field is required.", address |-> <<>>]
          [] Len(value) > AddressMaxLength ->
               [valid |-> FALSE, error |-> "Ensure this value has at most 42 characters",
                address |-> <<>>]
          [] ~MatchesAddressRegex(value) ->
               [valid |-> FALSE, error |-> "Invalid Ethereum address format",
                address |-> <<>>]
          [] AddressPks(addrs, cleaned) # {} ->
               [valid |-> FALSE,
                error |-> "Ethereum address with this Address already exists.",
                address |-> cleaned]
          [] OTHER ->
               [valid |-> TRUE, error |-> "", address |-> cleaned]

\* ------------------------------------------------------ update_address_balance

\* update_address_balance storing the wei count as the balance
UpdateAddressBalanceInWei(addrs, pk, data, now) ==
    IF data.status = "1"
    THEN IF IsDigits(data.result)
         THEN [addresses |-> [addrs EXCEPT
                                ![pk].balance = [int |-> StripZeros(data.result),
                                                 frac |-> Rep("0", EthDecimals)],
                                ![pk].last_updated = now],
               raised |-> "none"]
         ELSE [addresses |-> addrs, raised |-> "InvalidOperation"]
    ELSE [addresses |-> addrs, raised |-> "ValueError"]

\* update_address_balance returning silently on a failed answer, as the
\* importer does
UpdateAddressBalanceSilent(addrs, pk, data, now) ==
    IF data.status = "1"
    THEN IF IsDigits(data.result)
         THEN [addresses |-> [addrs EXCEPT ![pk].balance = WeiToEth(data.result),
                                           ![pk].last_updated = now],
               raised |-> "none"]
         ELSE [addresses |-> addrs, raised |-> "InvalidOperation"]
    ELSE [addresses |-> addrs, raised |-> "none"]

\* update_address_balance(address) when the explorer answers `data`
UpdateAddressBalance(addrs, pk, data, now) ==
    IF data.status = "1"
    THEN IF IsDigits(data.result)
         THEN [addresses |-> [addrs EXCEPT ![pk].balance = WeiToEth(data.result),
                                           ![pk].last_updated = now],
               raised |-> "none"]
         ELSE [addresses |-> addrs, raised |-> "InvalidOperation"]
    ELSE [addresses |-> addrs, raised |-> "ValueError"]

\* ---------------------------------------------------------------- watchlists

WatchListPks(wls, name, user) ==
    {i \in 1..Len(wls) : wls[i].name = name /\ wls[i].user = user}

\* WatchList.objects.get_or_create(name=..., user=..., defaults={...})
WatchListGetOrCreate(wls, name, user, description, now) ==
    LET found == WatchListPks(wls, name, user)
    IN  CASE found = {} ->
               [watchlists |-> Append(wls, [user |-> user, name |-> name,
                                           description |-> description,
                                           created_at |-> now]),
                pk |-> Len(wls) + 1, raised |-> "none"]
          [] Cardinality(found) = 1 ->
               [watchlists |-> wls, pk |-> CHOOSE i \in found : TRUE, raised |-> "none"]
          [] OTHER ->
               [watchlists |-> wls, pk |-> 0, raised |-> "MultipleObjectsReturned"]

MembershipPks(ms, a, w) ==
    {i \in 1..Len(ms) : ms[i].address = a /\ ms[i].watchlist = w}

\* AddressWatchList row insert under unique_together = ['address', 'watchlist']
AddressWatchListInsert(ms, a, w, now) ==
    IF MembershipPks(ms, a, w) # {}
    THEN [memberships |-> ms, raised |-> "IntegrityError"]
    ELSE [memberships |-> Append(ms, [address |-> a, watchlist |-> w,
                                      added_at |-> now, notes |-> ""]),
          raised |-> "none"]

\* add() inserting the pair without looking for it first
ManyRelatedAddAlways(ms, a, w, now) == AddressWatchListInsert(ms, a, w, now)

\* watchlist.ethereumaddress_set.add(address): only a missing pair is inserted
ManyRelatedAdd(ms, a, w, now) ==
    IF MembershipPks(ms, a, w) # {}
    THEN [memberships |-> ms, raised |-> "none"]
    ELSE AddressWatchListInsert(ms, a, w, now)

\* ------------------------------------------- fetch_transactions_from_etherscan

\* Transaction.objects.filter(hash=h).exists()
TransactionExists(txs, h) == \E i \in 1..Len(txs) : txs[i].hash = h

\* update_or_create in the place of get_or_create: a stored row is reset to
\* the defaults
AddressUpdateOrCreate(addrs, s, now) ==
    LET found == AddressPks(addrs, s)
        pk == CHOOSE i \in found : TRUE
    IN  CASE found = {} ->
               [addresses |-> Append(addrs, NewAddress(s, "", now)),
                pk |-> Len(addrs) + 1, raised |-> "none"]
          [] Cardinality(found) = 1 ->
               [addresses |-> [addrs EXCEPT ![pk].balance = ZeroDecimal,
                                            ![pk].label = ""],
                pk |-> pk, raised |-> "none"]
          [] OTHER ->
               [addresses |-> addrs, pk |-> 0, raised |-> "MultipleObjectsReturned"]

\* EthereumAddress.objects.get_or_create(address=s)
AddressGetOrCreate(addrs, s, now) ==
    LET found == AddressPks(addrs, s)
    IN  CASE found = {} ->
               [addresses |-> Append(addrs, NewAddress(s, "", now)),
                pk |-> Len(addrs) + 1, raised |-> "none"]
          [] Cardinality(found) = 1 ->
               [addresses |-> addrs, pk |-> CHOOSE i \in found : TRUE, raised |-> "none"]
          [] OTHER ->
               [addresses |-> addrs, pk |-> 0, raised |-> "MultipleObjectsReturned"]

\* Transaction.objects.create(...) under hash = CharField(unique=True)
TransactionCreate(txs, row) ==
    IF \E i \in 1..Len(txs) : txs[i].hash = row.hash
    THEN [transactions |-> txs, raised |-> "IntegrityError"]
    ELSE [transactions |-> Append(txs, row), raised |-> "none"]

\* status=(tx["isError"] != "1") in the place of == "0"
TransactionRowNotOne(tx, from_pk, to_pk) ==
    [hash |-> tx.hash, from_address |-> from_pk, to_address |-> to_pk,
     value |-> WeiToEth(tx.value),
     gas_price |-> ParseInt(tx.gasPrice), gas_used |-> ParseInt(tx.gasUsed),
     block_number |-> ParseInt(tx.blockNumber),
     timestamp |-> ParseInt(tx.timeStamp),
     status |-> (tx.isError # "1")]

\* The row the loop body builds from one entry of the result array.
TransactionRow(tx, from_pk, to_pk) ==
    [hash |-> tx.hash, from_address |-> from_pk, to_address |-> to_pk,
     value |-> WeiToEth(tx.value),
     gas_price |-> ParseInt(tx.gasPrice), gas_used |-> ParseInt(tx.gasUsed),
     block_number |-> ParseInt(tx.blockNumber),
     timestamp |-> ParseInt(tx.timeStamp),
     status |-> (tx.isError = "0")]

\* The loop body without its "skip if already exists"
FetchEntryNoSkip(addrs, txs, tx, now) ==
    LET from == AddressGetOrCreate(addrs, Lower(tx.from), now)
        to == AddressGetOrCreate(from.addresses, Lower(tx.to), now)
        made == TransactionCreate(txs, TransactionRow(tx, from.pk, to.pk))
    IN  CASE from.raised # "none" ->
               [addresses |-> addrs, transactions |-> txs, raised |-> from.raised]
          [] to.raised # "none" ->
               [addresses |-> from.addresses, transactions |-> txs, raised |-> to.raised]
          [] ~IsDigits(tx.timeStamp) ->
               [addresses |-> to.addresses, transactions |-> txs, raised |-> "ValueError"]
          [] ~IsDigits(tx.value) ->
               [addresses |-> to.addresses, transactions |-> txs,
                raised |-> "InvalidOperation"]
          [] ~(IsDigits(tx.gasPrice) /\ IsDigits(tx.gasUsed) /\ IsDigits(tx.blockNumber)) ->
               [addresses |-> to.addresses, transactions |-> txs, raised |-> "ValueError"]
          [] OTHER ->
               [addresses |-> to.addresses, transactions |-> made.transactions,
                raised |-> made.raised]

\* One pass of the loop over data["result"].
FetchEntry(addrs, txs, tx, now) ==
    LET from == AddressGetOrCreate(addrs, Lower(tx.from), now)
        to == AddressGetOrCreate(from.addresses, Lower(tx.to), now)
        made == TransactionCreate(txs, TransactionRow(tx, from.pk, to.pk))
    IN  CASE TransactionExists(txs, tx.hash) ->
               [addresses |-> addrs, transactions |-> txs, raised |-> "none"]
          [] from.raised # "none" ->
               [addresses |-> addrs, transactions |-> txs, raised |-> from.raised]
          [] to.raised # "none" ->
               [addresses |-> from.addresses, transactions |-> txs, raised |-> to.raised]
          [] ~IsDigits(tx.timeStamp) ->
               [addresses |-> to.addresses, transactions |-> txs, raised |-> "ValueError"]
          [] ~IsDigits(tx.value) ->
               [addresses |-> to.addresses, transactions |-> txs,
                raised |-> "InvalidOperation"]
          [] ~(IsDigits(tx.gasPrice) /\ IsDigits(tx.gasUsed) /\ IsDigits(tx.blockNumber)) ->
               [addresses |-> to.addresses, transactions |-> txs, raised |-> "ValueError"]
          [] OTHER ->
               [addresses |-> to.addresses, transactions |-> made.transactions,
                raised |-> made.raised]

RECURSIVE FetchLoop(_, _, _, _)
FetchLoop(addrs, txs, entries, now) ==
    IF entries = <<>>
    THEN [addresses |-> addrs, transactions |-> txs, raised |-> "none"]
    ELSE LET r == FetchEntry(addrs, txs, Head(entries), now)
         IN  IF r.raised # "none" THEN r
             ELSE FetchLoop(r.addresses, r.transactions, Tail(entries), now)

\* fetch_transactions_from_etherscan raising on a failed answer, as
\* update_address_balance does
FetchTransactionsRaising(addrs, txs, data, now) ==
    IF data.status # "1"
    THEN [addresses |-> addrs, transactions |-> txs, raised |-> "ValueError"]
    ELSE FetchLoop(addrs, txs, data.result, now)

\* fetch_transactions_from_etherscan(eth_address) when the explorer answers
\* `data`
FetchTransactions(addrs, txs, data, now) ==
    IF data.status # "1"
    THEN [addresses |-> addrs, transactions |-> txs, raised |-> "none"]
    ELSE FetchLoop(addrs, txs, data.result, now)

\* -------------------------------------------------------------- address_detail

\* The primary keys of the rows with txs[i][field] = pk, in ascending order.
RECURSIVE RelatedPks(_, _, _, _)
RelatedPks(txs, field, pk, n) ==
    IF n = 0 THEN <<>>
    ELSE IF txs[n][field] = pk
         THEN Append(RelatedPks(txs, field, pk, n - 1), n)
         ELSE RelatedPks(txs, field, pk, n - 1)

\* eth_address.outgoing_transactions
OutgoingPks(txs, pk) == RelatedPks(txs, "from_address", pk, Len(txs))

\* eth_address.incoming_transactions
IncomingPks(txs, pk) == RelatedPks(txs, "to_address", pk, Len(txs))

\* Transaction.objects.filter(Q(from_address=a) | Q(to_address=a)).exists()
HasAny(txs, pk) ==
    \E i \in 1..Len(txs) : txs[i].from_address = pk \/ txs[i].to_address = pk

\* `pks` by timestamp, newest first.  Rows with equal timestamps keep the
\* order they have in `pks` when `stable`, and take the reverse order
\* otherwise.
RECURSIVE SortNewestFirst(_, _, _)
SortNewestFirst(txs, pks, stable) ==
    IF pks = <<>> THEN <<>>
    ELSE LET sorted == SortNewestFirst(txs, SubSeq(pks, 1, Len(pks) - 1), stable)
             x == pks[Len(pks)]
             t == txs[x].timestamp
             cut == Cardinality({k \in 1..Len(sorted) :
                                   \/ txs[sorted[k]].timestamp > t
                                   \/ stable /\ txs[sorted[k]].timestamp = t})
         IN  SubSeq(sorted, 1, cut) \o <<x>> \o SubSeq(sorted, cut + 1, Len(sorted))

\* queryset.order_by('-timestamp'): the database decides the order of rows
\* with equal timestamps; `tie` is its choice, by ascending or by descending
\* primary key.
OrderByTimestampDesc(txs, pks, tie) == SortNewestFirst(txs, pks, tie = "asc")

\* list.sort(key=lambda x: x.timestamp, reverse=True): stable, so rows with
\* equal timestamps keep the order they had in the list.
SortByTimestampReverse(txs, pks) == SortNewestFirst(txs, pks, TRUE)

Take(seq, n) == SubSeq(seq, 1, IF Len(seq) < n THEN Len(seq) ELSE n)

\* The template context of address_detail (transactions as primary keys).
DetailContext(txs, pk, tie) ==
    LET outgoing_txs == Take(OrderByTimestampDesc(txs, OutgoingPks(txs, pk), tie), Window)
        incoming_txs == Take(OrderByTimestampDesc(txs, IncomingPks(txs, pk), tie), Window)
        all_transactions == SortByTimestampReverse(txs, outgoing_txs \o incoming_txs)
    IN  [transactions |-> Take(all_transactions, Window),
         outgoing_count |-> Len(outgoing_txs),
         incoming_count |-> Len(incoming_txs)]

\* address_detail calling the importer on every request
AddressDetailAlwaysFetch(addrs, txs, address, api, tie, now) ==
    LET found == AddressPks(addrs, address)
        pk == CHOOSE i \in found : TRUE
        fetched == FetchTransactions(addrs, txs, TxListApi[api], now)
        same == [addresses |-> addrs, transactions |-> txs]
    IN  CASE found = {} ->
               [store |-> same,
                reply |-> Reply("address_detail", "404", "Http404", "", <<>>, "none",
                                NoContext)]
          [] Cardinality(found) > 1 ->
               [store |-> same,
                reply |-> Reply("address_detail", "exception", "MultipleObjectsReturned",
                                "", <<>>, "none", NoContext)]
          [] fetched.raised # "none" ->
               [store |-> [addresses |-> fetched.addresses,
                           transactions |-> fetched.transactions],
                reply |-> Reply("address_detail", "exception", fetched.raised, "",
                                address, api, NoContext)]
          [] OTHER ->
               [store |-> [addresses |-> fetched.addresses,
                           transactions |-> fetched.transactions],
                reply |-> Reply("address_detail", "page", "none", "", address, api,
                                DetailContext(fetched.transactions, pk, tie))]

\* address_detail(request, address) answered at time `now`
AddressDetailResult(addrs, txs, address, api, tie, now) ==
    LET found == AddressPks(addrs, address)
        pk == CHOOSE i \in found : TRUE
        fetched == FetchTransactions(addrs, txs, TxListApi[api], now)
        same == [addresses |-> addrs, transactions |-> txs]
    IN  CASE found = {} ->
               [store |-> same,
                reply |-> Reply("address_detail", "404", "Http404", "", <<>>, "none",
                                NoContext)]
          [] Cardinality(found) > 1 ->
               [store |-> same,
                reply |-> Reply("address_detail", "exception", "MultipleObjectsReturned",
                                "", <<>>, "none", NoContext)]
          [] HasAny(txs, pk) ->
               [store |-> same,
                reply |-> Reply("address_detail", "page", "none", "", address, "none",
                                DetailContext(txs, pk, tie))]
          [] fetched.raised # "none" ->
               [store |-> [addresses |-> fetched.addresses,
                           transactions |-> fetched.transactions],
                reply |-> Reply("address_detail", "exception", fetched.raised, "",
                                address, api, NoContext)]
          [] OTHER ->
               [store |-> [addresses |-> fetched.addresses,
                           transactions |-> fetched.transactions],
                reply |-> Reply("address_detail", "page", "none", "", address, api,
                                DetailContext(fetched.transactions, pk, tie))]

\* ------------------------------------------------------------------ requests

\* The server's workers, each answering one request at a time.
Workers == {1, 2}

\* A worker between two requests.
Idle ==
    [op |-> "idle", pc |-> "idle", user |-> "", address |-> <<>>, label |-> "",
     submitted |-> <<>>, pk |-> 0, api |-> "none", entries |-> <<>>,
     from_pk |-> 0, to_pk |-> 0, raced |-> FALSE]

Init ==
    /\ inflight = [p \in Workers |-> Idle]
    /\ addresses = <<>>
    /\ transactions = <<>>
    /\ watchlists = <<>>
    /\ memberships = <<>>
    /\ clock = 0
    /\ last = Reply("none", "none", "none", "", <<>>, "none", NoContext)

\* add_address(request) answered at time `now`: the tables it leaves and
\* its reply.  @login_required; GET shows the form; POST validates, saves
\* the address, gets or creates the user's "Default" watchlist, adds the
\* address to it and refreshes the balance.
AddAddressResult(addrs, wls, ms, user, method, raw, label, api, now) ==
    LET form == AddAddressForm(addrs, raw, label)
        saved == Append(addrs, NewAddress(form.address, label, now))
        pk == Len(saved)
        wl == WatchListGetOrCreate(wls, "Default", user, "Default watchlist", now)
        added == ManyRelatedAdd(ms, pk, wl.pk, now)
        bal == UpdateAddressBalance(saved, pk, BalanceApi[api], now)
        same == [addresses |-> addrs, watchlists |-> wls, memberships |-> ms]
    IN  CASE user = Anonymous ->
               [store |-> same,
                reply |-> Reply("add_address", "login", "none", "", <<>>, "none", NoContext)]
          [] method = "GET" ->
               [store |-> same,
                reply |-> Reply("add_address", "form", "none", "", <<>>, "none", NoContext)]
          [] ~form.valid ->
               [store |-> same,
                reply |-> [Reply("add_address", "invalid", "none", form.error, <<>>,
                                 "none", NoContext) EXCEPT !.submitted = raw]]
          [] wl.raised # "none" ->
               [store |-> [same EXCEPT !.addresses = saved],
                reply |-> [Reply("add_address", "exception", wl.raised, "", form.address,
                                 "none", NoContext) EXCEPT !.submitted = raw]]
          [] added.raised # "none" ->
               [store |-> [addresses |-> saved, watchlists |-> wl.watchlists,
                           memberships |-> ms],
                reply |-> [Reply("add_address", "exception", added.raised, "",
                                 form.address, "none", NoContext)
                             EXCEPT !.submitted = raw, !.watchlist = wl.pk]]
          [] OTHER ->
               [store |-> [addresses |-> bal.addresses, watchlists |-> wl.watchlists,
                           memberships |-> added.memberships],
                reply |-> [Reply("add_address",
                                 IF bal.raised = "none" THEN "redirect" ELSE "exception",
                                 bal.raised, "", form.address, api, NoContext)
                             EXCEPT !.submitted = raw, !.watchlist = wl.pk]]

\* add_address asks the explorer: the form was valid and the watchlist found
AddAddressAsks(addrs, wls, user, method, raw, label) ==
    /\ user # Anonymous
    /\ method = "POST"
    /\ AddAddressForm(addrs, raw, label).valid
    /\ Cardinality(WatchListPks(wls, "Default", user)) <= 1

\* An explorer answer is drawn only for a request that asks the explorer.
AddAddress(user, method, raw, label, api) ==
    /\ clock < MaxOps
    /\ api = "notok" \/ AddAddressAsks(addresses, watchlists, user, method, raw, label)
    /\ clock' = clock + 1
    /\ LET r == AddAddressResult(addresses, watchlists, memberships, user, method, raw,
                                 label, api, clock + 1)
       IN  /\ addresses' = r.store.addresses
           /\ watchlists' = r.store.watchlists
           /\ memberships' = r.store.memberships
           /\ last' = Answered(r.reply, addresses, transactions, watchlists, memberships,
                               r.store.addresses, transactions, r.store.watchlists,
                               r.store.memberships)
    /\ UNCHANGED <<transactions, inflight>>

\* address_detail asks the explorer: the address is stored and no
\* transaction names it
AddressDetailAsks(addrs, txs, address) ==
    /\ Cardinality(AddressPks(addrs, address)) = 1
    /\ ~HasAny(txs, CHOOSE i \in AddressPks(addrs, address) : TRUE)

AddressDetail(address, api, tie) ==
    /\ clock < MaxOps
    /\ api = "notok" \/ AddressDetailAsks(addresses, transactions, address)
    /\ clock' = clock + 1
    /\ LET r == AddressDetailResult(addresses, transactions, address, api, tie, clock + 1)
       IN  /\ addresses' = r.store.addresses
           /\ transactions' = r.store.transactions
           /\ last' = Answered(r.reply, addresses, transactions, watchlists, memberships,
                               r.store.addresses, r.store.transactions, watchlists,
                               memberships)
    /\ UNCHANGED <<watchlists, memberships, inflight>>

\* api_address_balance(request, address) answered at time `now`: every
\* exception, Http404 included, becomes a JSON error with status 400.
ApiAddressBalanceResult(addrs, address, api, now) ==
    LET found == AddressPks(addrs, address)
        pk == CHOOSE i \in found : TRUE
        bal == UpdateAddressBalance(addrs, pk, BalanceApi[api], now)
    IN  CASE found = {} ->
               [addresses |-> addrs,
                reply |-> Reply("api_address_balance", "json400", "Http404",
                                "No EthereumAddress matches the given query.", <<>>,
                                "none", NoContext)]
          [] Cardinality(found) > 1 ->
               [addresses |-> addrs,
                reply |-> Reply("api_address_balance", "json400",
                                "MultipleObjectsReturned", "", <<>>, "none", NoContext)]
          [] bal.raised = "ValueError" ->
               [addresses |-> addrs,
                reply |-> Reply("api_address_balance", "json400", bal.raised,
                                "Failed to fetch balance from Etherscan", address, api,
                                NoContext)]
          [] bal.raised # "none" ->
               [addresses |-> addrs,
                reply |-> Reply("api_address_balance", "json400", bal.raised, "", address,
                                api, NoContext)]
          [] OTHER ->
               [addresses |-> bal.addresses,
                reply |-> Reply("api_address_balance", "json", "none", "", address, api,
                                NoContext)]

ApiAddressBalance(address, api) ==
    /\ clock < MaxOps
    /\ api = "notok" \/ Cardinality(AddressPks(addresses, address)) = 1
    /\ clock' = clock + 1
    /\ LET r == ApiAddressBalanceResult(addresses, address, api, clock + 1)
       IN  /\ addresses' = r.addresses
           /\ last' = r.reply
    /\ UNCHANGED <<transactions, watchlists, memberships, inflight>>

\* create_watchlist(request) answered at time `now`: the name is required.
CreateWatchListResult(wls, user, method, name, now) ==
    CASE user = Anonymous ->
           [watchlists |-> wls,
            reply |-> Reply("create_watchlist", "login", "none", "", <<>>, "none",
                            NoContext)]
      [] method = "GET" ->
           [watchlists |-> wls,
            reply |-> Reply("create_watchlist", "form", "none", "", <<>>, "none",
                            NoContext)]
      [] name = "" ->
           [watchlists |-> wls,
            reply |-> Reply("create_watchlist", "invalid", "none",
                            "This field is required.", <<>>, "none", NoContext)]
      [] OTHER ->
           [watchlists |-> Append(wls, [user |-> user, name |-> name,
                                        description |-> "", created_at |-> now]),
            reply |-> Reply("create_watchlist", "redirect", "none", "", <<>>, "none",
                            NoContext)]

CreateWatchList(user, method, name) ==
    /\ clock < MaxOps
    /\ clock' = clock + 1
    /\ LET r == CreateWatchListResult(watchlists, user, method, name, clock + 1)
       IN  /\ watchlists' = r.watchlists
           /\ last' = Answered(r.reply, addresses, transactions, watchlists, memberships,
                               addresses, transactions, r.watchlists, memberships)
    /\ UNCHANGED <<addresses, transactions, memberships, inflight>>

\* watchlist.ethereumaddress_set.add(address) on two stored rows, as
\* test_many_to_many_relationship does
WatchListAdd(w, a) ==
    /\ clock < MaxOps
    /\ clock' = clock + 1
    /\ w \in 1..Len(watchlists)
    /\ a \in 1..Len(addresses)
    /\ LET r == ManyRelatedAdd(memberships, a, w, clock + 1)
       IN  /\ memberships' = r.memberships
           /\ last' = Answered(
                  [Reply("watchlist_add",
                         IF r.raised = "none" THEN "done" ELSE "exception",
                         r.raised, "", addresses[a].address, "none", NoContext)
                     EXCEPT !.watchlist = w],
                  addresses, transactions, watchlists, memberships,
                  addresses, transactions, watchlists, r.memberships)
    /\ UNCHANGED <<addresses, transactions, watchlists, inflight>>

\* The requests a client sends.  A visitor who is not logged in is sent to
\* the login page whatever the request holds, and a GET carries no form
\* data, so one request stands for each.
AddAddressRequests ==
    {[user |-> Anonymous, method |-> "GET", raw |-> <<>>]}
    \cup [user : Users, method : {"GET"}, raw : {<<>>}]
    \cup [user : Users, method : {"POST"}, raw : SubmittedAddresses]

CreateWatchListRequests ==
    {[user |-> Anonymous, method |-> "GET", name |-> ""]}
    \cup [user : Users, method : {"GET"}, name : {""}]
    \cup [user : Users, method : {"POST"}, name : WatchListNames]

Next ==
    \/ \E address \in UrlAddresses, api \in BalanceAnswers :
          ApiAddressBalance(address, api)
    \/ \E req \in CreateWatchListRequests :
          CreateWatchList(req.user, req.method, req.name)
    \/ \E w \in 1..Len(watchlists), a \in 1..Len(addresses) : WatchListAdd(w, a)
    \/ \E address \in UrlAddresses, api \in ShortTxListAnswers, tie \in Ties :
          AddressDetail(address, api, tie)
    \/ \E req \in AddAddressRequests, label \in Labels, api \in BalanceAnswers :
          AddAddress(req.user, req.method, req.raw, label, api)

Spec == Init /\ [][Next]_vars

\* Addresses are added and their pages viewed; the explorer may answer with
\* the long list.
NextLong ==
    \/ \E address \in UrlAddresses, api \in TxListAnswers, tie \in Ties :
          AddressDetail(address, api, tie)
    \/ \E raw \in {AddrA, AddrB}, label \in Labels, api \in BalanceAnswers :
          AddAddress("alice", "POST", raw, label, api)

SpecLong == Init /\ [][NextLong]_vars

\* Users add addresses and create watchlists, and nothing else happens.
NextWatchLists ==
    \/ \E req \in CreateWatchListRequests :
          CreateWatchList(req.user, req.method, req.name)
    \/ \E req \in AddAddressRequests, label \in Labels, api \in BalanceAnswers :
          AddAddress(req.user, req.method, req.raw, label, api)

SpecWatchLists == Init /\ [][NextWatchLists]_vars

\* ----------------------------------------------------- concurrent requests

\* INSERT of an Address row without the unique index on address
AddressInsertUnchecked(addrs, row) ==
    [addresses |-> Append(addrs, row), raised |-> "none"]

\* INSERT of an Address row: the database refuses a second row with the same
\* address (unique=True), whatever the inserting request saw before.
AddressInsert(addrs, row) ==
    IF AddressPks(addrs, row.address) # {}
    THEN [addresses |-> addrs, raised |-> "IntegrityError"]
    ELSE [addresses |-> Append(addrs, row), raised |-> "none"]

\* The requests of the concurrent runs.
RaceUrlAddresses == {AddrA, AddrB}

RaceTxListAnswers == {"notok", "transfer", "overlap"}

RaceSubmitted == {AddrA, AddrB, AddrBUpper, AddrInvalid}

\* The worker ends its request with an answer.
Finish(p, reply) ==
    /\ last' = reply
    /\ inflight' = [inflight EXCEPT ![p] = Idle]

\* address_detail up to the importer's loop: the lookup of the address, the
\* has_any query and the call of the explorer.  A request that does not
\* import is answered at once.
AddressDetailBegin(p, address, api, tie) ==
    /\ clock < MaxOps
    /\ inflight[p].op = "idle"
    /\ api = "notok" \/ AddressDetailAsks(addresses, transactions, address)
    /\ clock' = clock + 1
    /\ IF AddressDetailAsks(addresses, transactions, address) /\ TxListApi[api].status = "1"
       THEN /\ inflight' = [inflight EXCEPT ![p] =
                              [Idle EXCEPT !.op = "import", !.pc = "exists",
                                           !.address = address,
                                           !.pk = CHOOSE i \in AddressPks(addresses, address) : TRUE,
                                           !.api = api,
                                           !.entries = TxListApi[api].result]]
            /\ UNCHANGED last
       ELSE Finish(p, AddressDetailResult(addresses, transactions, address, api, tie,
                                          clock + 1).reply)
    /\ UNCHANGED <<addresses, transactions, watchlists, memberships>>

\* Transaction.objects.filter(hash=tx["hash"]).exists(), and continue
FetchExists(p) ==
    /\ inflight[p].pc = "exists"
    /\ inflight[p].entries # <<>>
    /\ inflight' = [inflight EXCEPT ![p] =
                      IF TransactionExists(transactions, Head(inflight[p].entries).hash)
                      THEN [@ EXCEPT !.entries = Tail(@)]
                      ELSE [@ EXCEPT !.pc = "get_from"]]
    /\ UNCHANGED <<addresses, transactions, watchlists, memberships, clock, last>>

\* The address string the worker's get_or_create is about.
Wanted(r) ==
    Lower(IF r.pc \in {"get_from", "create_from"}
          THEN Head(r.entries).from
          ELSE Head(r.entries).to)

\* The worker has the row pk for the string it wanted.
Got(r, pk) ==
    IF r.pc \in {"get_from", "create_from"}
    THEN [r EXCEPT !.from_pk = pk, !.pc = "get_to"]
    ELSE [r EXCEPT !.to_pk = pk, !.pc = "create_tx"]

\* get_or_create, the get: the existence check
FetchGetAddress(p) ==
    LET r == inflight[p]
        found == AddressPks(addresses, Wanted(r))
    IN  /\ r.pc \in {"get_from", "get_to"}
        /\ CASE found = {} ->
                  /\ inflight' = [inflight EXCEPT ![p].pc =
                                    IF r.pc = "get_from" THEN "create_from" ELSE "create_to"]
                  /\ UNCHANGED last
             [] Cardinality(found) = 1 ->
                  /\ inflight' = [inflight EXCEPT ![p] = Got(r, CHOOSE i \in found : TRUE)]
                  /\ UNCHANGED last
             [] OTHER ->
                  Finish(p, Reply("address_detail", "exception", "MultipleObjectsReturned",
                                  "", r.address, r.api, NoContext))
        /\ UNCHANGED <<addresses, transactions, watchlists, memberships, clock>>

\* get_or_create, the create: the insert, and on IntegrityError the get again
FetchCreateAddress(p) ==
    LET r == inflight[p]
        ins == AddressInsert(addresses, NewAddress(Wanted(r), "", clock))
    IN  /\ r.pc \in {"create_from", "create_to"}
        /\ addresses' = ins.addresses
        /\ inflight' = [inflight EXCEPT ![p] =
                          IF ins.raised = "none"
                          THEN Got(r, Len(ins.addresses))
                          ELSE [Got(r, CHOOSE i \in AddressPks(addresses, Wanted(r)) : TRUE)
                                  EXCEPT !.raced = TRUE]]
        /\ UNCHANGED <<transactions, watchlists, memberships, clock, last>>

\* The timestamp conversion and Transaction.objects.create
FetchCreateTransaction(p) ==
    LET r == inflight[p]
        tx == Head(r.entries)
        made == TransactionCreate(transactions, TransactionRow(tx, r.from_pk, r.to_pk))
        raised == CASE ~IsDigits(tx.timeStamp) -> "ValueError"
                    [] ~IsDigits(tx.value) -> "InvalidOperation"
                    [] ~(IsDigits(tx.gasPrice) /\ IsDigits(tx.gasUsed)
                           /\ IsDigits(tx.blockNumber)) -> "ValueError"
                    [] OTHER -> made.raised
    IN  /\ r.pc = "create_tx"
        /\ IF raised = "none"
           THEN /\ transactions' = made.transactions
                /\ inflight' = [inflight EXCEPT ![p] =
                                  [r EXCEPT !.entries = Tail(@), !.pc = "exists"]]
                /\ UNCHANGED last
           ELSE /\ UNCHANGED transactions
                /\ Finish(p, Reply("address_detail", "exception", raised, "", r.address,
                                   r.api, NoContext))
        /\ UNCHANGED <<addresses, watchlists, memberships, clock>>

\* The end of the loop, and the page address_detail renders
FetchReturn(p, tie) ==
    /\ inflight[p].pc = "exists"
    /\ inflight[p].entries = <<>>
    /\ Finish(p, Reply("address_detail", "page", "none", "", inflight[p].address,
                       inflight[p].api, DetailContext(transactions, inflight[p].pk, tie)))
    /\ UNCHANGED <<addresses, transactions, watchlists, memberships, clock>>

\* add_address up to form.save(): the login check and form.is_valid(), whose
\* unique check is a query
AddAddressBegin(p, user, method, raw, label) ==
    /\ clock < MaxOps
    /\ inflight[p].op = "idle"
    /\ clock' = clock + 1
    /\ IF AddAddressAsks(addresses, watchlists, user, method, raw, label)
       THEN /\ inflight' = [inflight EXCEPT ![p] =
                              [Idle EXCEPT !.op = "add", !.pc = "save", !.user = user,
                                           !.address = AddAddressForm(addresses, raw, label).address,
                                           !.label = label, !.submitted = raw]]
            /\ UNCHANGED last
       ELSE Finish(p, AddAddressResult(addresses, watchlists, memberships, user, method,
                                       raw, label, "notok", clock + 1).reply)
    /\ UNCHANGED <<addresses, transactions, watchlists, memberships>>

\* form.save(), the insert, and the rest of add_address: the "Default"
\* watchlist, the membership and the balance
AddAddressSave(p, api) ==
    LET r == inflight[p]
        ins == AddressInsert(addresses, NewAddress(r.address, r.label, clock))
        pk == Len(ins.addresses)
        wl == WatchListGetOrCreate(watchlists, "Default", r.user, "Default watchlist", clock)
        added == ManyRelatedAdd(memberships, pk, wl.pk, clock)
        bal == UpdateAddressBalance(ins.addresses, pk, BalanceApi[api], clock)
        raised == CASE ins.raised # "none" -> ins.raised
                    [] wl.raised # "none" -> wl.raised
                    [] added.raised # "none" -> added.raised
                    [] OTHER -> bal.raised
    IN  /\ r.pc = "save"
        /\ api = "notok" \/ ins.raised = "none"
        /\ addresses' = CASE ins.raised # "none" -> addresses
                          [] wl.raised # "none" \/ added.raised # "none" -> ins.addresses
                          [] OTHER -> bal.addresses
        /\ watchlists' = IF ins.raised # "none" \/ wl.raised # "none"
                         THEN watchlists ELSE wl.watchlists
        /\ memberships' = IF ins.raised # "none" \/ wl.raised # "none"
                               \/ added.raised # "none"
                          THEN memberships ELSE added.memberships
        /\ Finish(p, [Reply("add_address",
                            IF raised = "none" THEN "redirect" ELSE "exception",
                            raised, "", r.address,
                            IF raised \in {"none", bal.raised} /\ ins.raised = "none"
                            THEN api ELSE "none",
                            NoContext)
                        EXCEPT !.submitted = r.submitted])
        /\ UNCHANGED <<transactions, clock>>

NextRace ==
    \/ \E p \in Workers, address \in RaceUrlAddresses, api \in RaceTxListAnswers,
          tie \in Ties : AddressDetailBegin(p, address, api, tie)
    \/ \E p \in Workers : FetchExists(p)
    \/ \E p \in Workers : FetchGetAddress(p)
    \/ \E p \in Workers : FetchCreateAddress(p)
    \/ \E p \in Workers : FetchCreateTransaction(p)
    \/ \E p \in Workers, tie \in Ties : FetchReturn(p, tie)
    \/ \E p \in Workers, raw \in RaceSubmitted, label \in Labels :
          AddAddressBegin(p, "alice", "POST", raw, label)
    \/ \E p \in Workers, api \in BalanceAnswers : AddAddressSave(p, api)

SpecRace == Init /\ [][NextRace]_vars

\* ------------------------------------------------------------------ claims

\* "0x" followed by exactly 40 hexadecimal characters
IsAddressFormat(s) ==
    /\ Len(s) = 42
    /\ s[1] = "0"
    /\ s[2] = "x"
    /\ \A i \in 3..42 : s[i] \in HexChars

\* The last request ran the importer (it asked the explorer for the list).
Imported(l) == l.op = "address_detail" /\ l.api # "none"

\* The last request asked the explorer for a balance.
AskedBalance(l) == l.op \in {"add_address", "api_address_balance"} /\ l.api # "none"

HashStored(txs, h) == \E i \in 1..Len(txs) : txs[i].hash = h

AllHashesStored(txs, result) ==
    \A i \in 1..Len(result) : HashStored(txs, result[i].hash)

UniqueHashes ==
    \A i, j \in 1..Len(transactions) :
        transactions[i].hash = transactions[j].hash => i = j

\* An import of a list all of whose hashes are stored ends normally and
\* inserts nothing.
ReimportAddsNothing ==
    (/\ Imported(last')
     /\ TxListApi[last'.api].status = "1"
     /\ AllHashesStored(transactions, TxListApi[last'.api].result))
    => /\ transactions' = transactions
       /\ addresses' = addresses
       /\ last'.raised = "none"

\* C1: after any sequence of imports the store holds at most one Transaction
\* row per hash, and importing a list whose transactions are all stored
\* already (a second import of the same list) ends normally and adds no
\* Transaction row and no Address row.
C1_ImportIdempotent == [](UniqueHashes) /\ [][ReimportAddsNothing]_vars

\* A list with entries was imported a second time, and nothing was inserted.
C1_Witness ==
    /\ Imported(last)
    /\ TxListApi[last.api].status = "1"
    /\ TxListApi[last.api].result # <<>>
    /\ AllHashesStored(transactions, TxListApi[last.api].result)
    /\ last.raised = "none"
    /\ last.inserted.transactions = 0
    /\ last.inserted.addresses = 0

\* The last request was a POST to add_address by a logged-in user.
Submitted(l) == l.op = "add_address" /\ l.outcome \notin {"login", "form"}

Rejected(error) ==
    /\ last'.outcome = "invalid"
    /\ last'.error = error
    /\ UNCHANGED <<addresses, transactions, watchlists, memberships>>

StoredLowercase(s) ==
    /\ Len(addresses') = Len(addresses) + 1
    /\ SubSeq(addresses', 1, Len(addresses)) = addresses
    /\ addresses'[Len(addresses')].address = Lower(s)
    /\ last'.outcome \in {"redirect", "exception"}

\* C2 as claimed: a submitted string that is not 0x and 40 hexadecimal
\* characters is rejected with 'Invalid Ethereum address format' and the
\* store is unchanged; a string that is, is accepted and stored in lowercase.
C2_AsClaimed ==
    [][Submitted(last') =>
         IF IsAddressFormat(last'.submitted)
         THEN StoredLowercase(last'.submitted)
         ELSE Rejected("Invalid Ethereum address format")]_vars

\* C2, amended: the form strips surrounding whitespace from the submitted
\* string.  An empty value, a value of more than 42 characters, a value that
\* is not 0x and 40 hexadecimal characters, and a value whose lowercase form
\* is stored already are each rejected with their own error (the third with
\* 'Invalid Ethereum address format') and the store is unchanged; any other
\* value is stored in lowercase as a new Address row.
C2_AddAddressValidation ==
    [][Submitted(last') =>
         LET value == Strip(last'.submitted)
         IN  CASE value = <<>> -> Rejected("This field is required.")
               [] Len(value) > 42 ->
                    Rejected("Ensure this value has at most 42 characters")
               [] ~IsAddressFormat(value) ->
                    Rejected("Invalid Ethereum address format")
               [] \E i \in 1..Len(addresses) : addresses[i].address = Lower(value) ->
                    Rejected("Ethereum address with this Address already exists.")
               [] OTHER -> StoredLowercase(value)]_vars

\* A malformed string was submitted and rejected with the format error.
C2_Witness ==
    /\ Submitted(last)
    /\ ~IsAddressFormat(last.submitted)
    /\ last.outcome = "invalid"
    /\ last.error = "Invalid Ethereum address format"

\* The decimal d is exactly w / 10^18, for a digit string w.
IsWeiOver10To18(d, w) ==
    /\ Len(d.frac) = 18
    /\ d.int = StripZeros(d.int)
    /\ StripZeros(d.int \o d.frac) = StripZeros(w)

\* The row of the address the last answer is about.
RowOf(addrs, l) == CHOOSE i \in 1..Len(addrs) : addrs[i].address = l.address

C4_BalanceFailureRaises ==
    [][(AskedBalance(last') /\ BalanceApi[last'.api].status # "1") =>
         /\ last'.raised = "ValueError"
         /\ last'.op = "api_address_balance" =>
              /\ addresses' = addresses
              /\ last'.outcome = "json400"
         /\ last'.op = "add_address" =>
              /\ SubSeq(addresses', 1, Len(addresses)) = addresses
              /\ Len(addresses') = Len(addresses) + 1
              /\ addresses'[Len(addresses')].balance = ZeroDecimal
              /\ addresses'[Len(addresses')].last_updated
                   = addresses'[Len(addresses')].created_at]_vars

\* A refresh of an address with a non-zero balance failed.
C4_Witness ==
    /\ last.op = "api_address_balance"
    /\ last.api = "notok"
    /\ last.raised = "ValueError"
    /\ addresses[RowOf(addresses, last)].balance # ZeroDecimal

\* C5: when the transaction-list API answers with a status other than "1",
\* fetch_transactions_from_etherscan returns normally and no Transaction row
\* and no Address row is created or changed, whatever the result holds.
C5_ImportFailureSilent ==
    [][(Imported(last') /\ TxListApi[last'.api].status # "1") =>
         /\ last'.raised = "none"
         /\ last'.outcome = "page"
         /\ addresses' = addresses
         /\ transactions' = transactions]_vars

\* The explorer refused a list whose result held an entry.
C5_Witness ==
    /\ Imported(last)
    /\ last.api = "denied"
    /\ last.outcome = "page"

\* The entry of the result array a row with hash h is created from: the
\* first one with that hash.
FirstEntry(result, h) ==
    result[CHOOSE i \in 1..Len(result) :
             /\ result[i].hash = h
             /\ \A j \in 1..(i - 1) : result[j].hash # h]

\* The primary keys of the Transaction rows the step inserts.
NewTransactionPks == (Len(transactions) + 1)..Len(transactions')

\* C6: every Transaction row is created by the import, with status true if
\* and only if the isError field of the entry it is created from equals "0",
\* and no later step changes the row.
C6_StatusFromIsError ==
    [][/\ SubSeq(transactions', 1, Len(transactions)) = transactions
       /\ NewTransactionPks # {} => Imported(last')
       /\ \A k \in NewTransactionPks :
            transactions'[k].status
              = (FirstEntry(TxListApi[last'.api].result, transactions'[k].hash).isError
                   = "0")]_vars

\* An import stored a failed transaction (isError "1") and a successful one.
C6_Witness ==
    /\ Imported(last)
    /\ last.api = "overlap"
    /\ last.inserted.transactions = 2
    /\ \E i, j \in 1..Len(transactions) :
         /\ transactions[i].hash = "0x02" /\ ~transactions[i].status
         /\ transactions[j].hash = "0x01" /\ transactions[j].status

UniqueMemberships ==
    \A i, j \in 1..Len(memberships) :
        (/\ memberships[i].address = memberships[j].address
         /\ memberships[i].watchlist = memberships[j].watchlist) => i = j

\* The (address, watchlist) pair of the request is a membership row already.
PairStored(ms, addrs, l) ==
    \E i \in 1..Len(ms) :
        /\ ms[i].watchlist = l.watchlist
        /\ addrs[ms[i].address].address = l.address

\* C7: there is at most one membership row for each (address, watchlist)
\* pair, and a request that adds a pair that is stored already ends normally
\* and leaves the membership rows unchanged; no step changes or removes a
\* membership row.
C7_MembershipOnce ==
    /\ [](UniqueMemberships)
    /\ [][/\ SubSeq(memberships', 1, Len(memberships)) = memberships
          /\ (/\ last'.op \in {"watchlist_add", "add_address"}
              /\ last'.watchlist # 0
              /\ PairStored(memberships, addresses, last'))
             => (memberships' = memberships /\ last'.raised = "none")]_vars

\* A pair that was stored was added again, and no row was inserted.
C7_Witness ==
    /\ last.op = "watchlist_add"
    /\ PairStored(memberships, addresses, last)
    /\ last.inserted.memberships = 0
    /\ last.raised = "none"

\* C8: for every entry an import stores, the lowercased from and to strings
\* each have an Address row and the new Transaction row references them; an
\* Address row the import creates has balance 0, and every Address row that
\* existed before is unchanged (its balance and label included).
C8_ImportCreatesAddresses ==
    [][Imported(last') =>
         /\ \A i \in 1..Len(addresses) : addresses'[i] = addresses[i]
         /\ \A i \in (Len(addresses) + 1)..Len(addresses') :
              addresses'[i].balance = ZeroDecimal
         /\ \A k \in NewTransactionPks :
              LET row == transactions'[k]
                  e == FirstEntry(TxListApi[last'.api].result, row.hash)
              IN  /\ row.from_address \in 1..Len(addresses')
                  /\ row.to_address \in 1..Len(addresses')
                  /\ addresses'[row.from_address].address = Lower(e.from)
                  /\ addresses'[row.to_address].address = Lower(e.to)]_vars

\* An import stored a transaction from an address that existed, with a
\* non-zero balance and a label, to an address it created.
C8_Witness ==
    /\ Imported(last)
    /\ last.inserted.transactions > 0
    /\ last.inserted.addresses > 0
    /\ \E k \in 1..Len(transactions) :
         /\ transactions[k].from_address <= Len(addresses) - last.inserted.addresses
         /\ addresses[transactions[k].from_address].balance # ZeroDecimal
         /\ addresses[transactions[k].from_address].label # ""
         /\ transactions[k].to_address > Len(addresses) - last.inserted.addresses

\* C9 as claimed: every stored Address row's address string is 0x followed
\* by exactly 40 hexadecimal characters, in lowercase.
C9_AsClaimed ==
    \A i \in 1..Len(addresses) :
        /\ IsAddressFormat(addresses[i].address)
        /\ Lower(addresses[i].address) = addresses[i].address

\* The transactions that name the address row pk as sender or recipient.
Involving(txs, pk) ==
    {i \in 1..Len(txs) : txs[i].from_address = pk \/ txs[i].to_address = pk}

\* C10 as claimed: the list address_detail presents has at most 20 entries,
\* is ordered by timestamp descending and holds exactly the 20 most recent
\* transactions that name the address (all of them when there are fewer),
\* each once.
C10_AsClaimed ==
    (last.op = "address_detail" /\ last.outcome = "page") =>
        LET shown == last.context.transactions
            named == Involving(transactions, RowOf(addresses, last))
            listed == {shown[a] : a \in 1..Len(shown)}
        IN  /\ Len(shown) <= 20
            /\ \A a, b \in 1..Len(shown) :
                 a < b => transactions[shown[a]].timestamp
                            >= transactions[shown[b]].timestamp
            /\ \A a, b \in 1..Len(shown) : shown[a] = shown[b] => a = b
            /\ listed \subseteq named
            /\ Len(shown) = (IF Cardinality(named) < 20 THEN Cardinality(named) ELSE 20)
            /\ \A i \in named \ listed : \A a \in 1..Len(shown) :
                 transactions[shown[a]].timestamp >= transactions[i].timestamp

\* The number of stored transactions with the address row pk in `field`.
TotalCount(txs, field, pk) ==
    Cardinality({i \in 1..Len(txs) : txs[i][field] = pk})

\* C11 as claimed: the outgoing_count and incoming_count address_detail
\* presents are the numbers of stored Transaction rows with the address as
\* sender and as recipient, also when a number is above 20.
C11_AsClaimed ==
    (last.op = "address_detail" /\ last.outcome = "page") =>
        LET pk == RowOf(addresses, last)
        IN  /\ last.context.outgoing_count = TotalCount(transactions, "from_address", pk)
            /\ last.context.incoming_count = TotalCount(transactions, "to_address", pk)

\* Some user owns a watchlist with a membership row: in a history of
\* add_address and create_watchlist requests, the user added an address.
HasAdded(user) ==
    \E i \in 1..Len(memberships) : watchlists[memberships[i].watchlist].user = user

DefaultsOf(wls, user) ==
    {w \in 1..Len(wls) : wls[w].user = user /\ wls[w].name = "Default"}

OneDefaultEach ==
    \A user \in Users : HasAdded(user) => Cardinality(DefaultsOf(watchlists, user)) = 1

\* An add_address that inserts a membership row puts the new Address row in
\* the one "Default" watchlist of its owner, where the owner's earlier
\* memberships are.
AddsToTheDefault ==
    (last'.op = "add_address" /\ Len(memberships') > Len(memberships)) =>
        LET m == memberships'[Len(memberships')]
            owner == watchlists'[m.watchlist].user
        IN  /\ m.address = Len(addresses')
            /\ DefaultsOf(watchlists', owner) = {m.watchlist}
            /\ \A i \in 1..Len(memberships) :
                 watchlists[memberships[i].watchlist].user = owner
                   => memberships[i].watchlist = m.watchlist

\* An add_address that saved the address went on to add it to a watchlist.
NoWatchListFailure ==
    (last'.op = "add_address" /\ Len(addresses') > Len(addresses)) =>
        /\ last'.raised \notin {"MultipleObjectsReturned", "IntegrityError"}
        /\ Len(memberships') = Len(memberships) + 1

\* C12 as claimed: after any sequence of add_address and create_watchlist
\* requests, each user who has added an address owns exactly one watchlist
\* named "Default", every successful add_address by the user puts the
\* address in that watchlist, and add_address never fails because of the
\* user's watchlists.
C12_AsClaimed ==
    /\ [](OneDefaultEach)
    /\ [][AddsToTheDefault /\ NoWatchListFailure]_vars

UniqueAddresses ==
    \A i, j \in 1..Len(addresses) :
        addresses[i].address = addresses[j].address => i = j

\* C13: in every reachable state, also when two requests about the same
\* address string (two imports, or an import and an add_address) interleave
\* between their existence check and their insert, no two Address rows have
\* the same address string.
C13_NoDuplicateAddress == UniqueAddresses

\* An importer's get found no row for a string and its insert was refused
\* because another request had inserted the row in between.
C13_Witness ==
    \E p \in Workers :
        /\ inflight[p].op = "import"
        /\ inflight[p].raced
        /\ UniqueAddresses

\* C14: address_detail for a stored address runs the importer if and only
\* if no Transaction row names the address as sender or recipient when the
\* request arrives; a request for an address that a row names makes no
\* import call and creates no Transaction or Address row, and an address
\* that a row names stays named in every later state.
C14_ImportOnlyWhenEmpty ==
    [][/\ (last'.op = "address_detail" /\ last'.outcome # "404") =>
            LET pk == RowOf(addresses, last')
            IN  /\ Imported(last') <=> (Involving(transactions, pk) = {})
                /\ Involving(transactions, pk) # {} =>
                     /\ transactions' = transactions
                     /\ addresses' = addresses
                     /\ last'.outcome = "page"
       /\ \A pk \in 1..Len(addresses) :
            Involving(transactions, pk) \subseteq Involving(transactions', pk)]_vars

\* A page of an address with imported transactions was asked for again and
\* was answered without an import.
C14_Witness ==
    /\ last.op = "address_detail"
    /\ last.outcome = "page"
    /\ last.api = "none"
    /\ last.inserted.transactions = 0
    /\ Involving(transactions, RowOf(addresses, last)) # {}

====
